---- MODULE Spec2Model ----
(***************************************************************************)
(* Temperature Monitor: the caching proxy (netlify function), the browser  *)
(* client's fetchTemperatureData orchestrator and the pure pipeline        *)
(* convertApiDataToChartData -> calculateMovingAverage -> detectSeason.    *)
(*                                                                         *)
(* Numbers.  Temperatures are JavaScript doubles.  They are modelled in    *)
(* fixed point, as an integer count of hundredths of a degree, or NaN:     *)
(*   [nan |-> FALSE, v |-> 850] is 8.5,   [nan |-> TRUE, v |-> 0] is NaN.  *)
(* Inputs carry at most two fractional digits, so sums are exact; the      *)
(* binary rounding error of a double sum is not modelled.                  *)
(* Nullable values are <<>> (null) or <<x>>.                               *)
(* Text is a sequence of one-character strings.                            *)
(***************************************************************************)
EXTENDS Integers, Sequences, FiniteSets, TLC

VARIABLES
    now,        \* Date.now(), in ms
    ticks,      \* number of clock advances so far (bounded)
    cache,      \* proxy: the module-level cache object
    handler,    \* proxy: per invocation slot, its position, request and response
    otherCalls, \* proxy: invocations made so far by callers other than the client
    build,      \* client: which build runs, "part_002" or "App.tsx"
    hostname,   \* client: window.location.hostname
    storage,    \* client: localStorage[CACHE_KEY], <<>> when absent
    storageWritable, \* client: FALSE when localStorage.setItem throws (quota)
    data, movingAverageData, loading, error, stationInfo, seasonInfo,
    lastUpdated, usingCachedData,   \* client: the useState values of App
    mounted,    \* client: the mount effect has run
    cpc,        \* client: position of the fetchTemperatureData invocation
    forceRefresh, \* client: the argument of the latest fetchTemperatureData invocation
    request,    \* client: the axios request to the function, "none", "sent", "served"
    requests,   \* client: network requests started by the current invocation
    outcome,    \* client: the path on which the last invocation ended
    seasonInput,\* client: the series last passed to detectSeason, <<>> = none
    invocations,\* client: invocations of fetchTemperatureData so far (bounded)
    pin,        \* pipeline check: the series given to the functions
    pw,         \* pipeline check: the windowSize argument
    pout,       \* pipeline check: result of the smoothing call, <<>> before it
    pseasonIn,  \* pipeline check: the series given to detectSeason
    pseason,    \* pipeline check: result of detectSeason
    pstage      \* pipeline check: "input", "smoothed", "smoothedCentered", "classified"

pvars == <<pin, pw, pout, pseasonIn, pseason, pstage>>

proxyVars == <<cache, handler, otherCalls>>

uiVars == <<data, movingAverageData, loading, error, stationInfo, seasonInfo,
            lastUpdated, usingCachedData>>

clientVars == <<build, hostname, storage, storageWritable, uiVars, mounted, cpc, forceRefresh,
               request, requests,
                outcome, seasonInput, invocations>>

vars == <<now, ticks, proxyVars, clientVars, pvars>>

----------------------------------------------------------------------------
(* Bounds of the model                                                     *)

MaxLen == 3        \* short input series have 0..MaxLen points
MaxWindow == 3     \* window sizes 1..MaxWindow besides the program's 6 and 24
MaxPad == 1        \* long series: 0..MaxPad points before and after a run of 119
MaxTicks == 2      \* clock advances
MaxHandlers == 2   \* ProxySpec: concurrent invocations of the proxy handler
MaxOtherCalls == 3 \* ProxySpec: proxy invocations by callers other than the client
MaxVisitors == 1   \* Spec: proxy invocations by callers other than the client
MaxInvocations == 2 \* client invocations of fetchTemperatureData (mounts and clicks)
StartTime == 10000000 \* Date.now() in the initial state

----------------------------------------------------------------------------
(* Numbers                                                                 *)

NaN == [nan |-> TRUE, v |-> 0]

Num(x) == [nan |-> FALSE, v |-> x]

\* x < c, x > c on doubles: every comparison with NaN is false
NumLt(x, c) == (~x.nan) /\ x.v < c

NumGt(x, c) == (~x.nan) /\ x.v > c

\* acc + item.temperature
NumAdd(x, y) == IF x.nan \/ y.nan THEN NaN ELSE Num(x.v + y.v)

Max(a, b) == IF a >= b THEN a ELSE b

Min(a, b) == IF a <= b THEN a ELSE b

\* slice(start, end) for 0 <= start, 0-based, end exclusive
Slice(s, start, end) ==
    IF start >= Min(end, Len(s)) THEN <<>>
    ELSE [k \in 1..(Min(end, Len(s)) - start) |-> s[start + k]]

\* windowData.reduce((acc, item) => acc + item.temperature, 0)
RECURSIVE SumTemperature(_)
SumTemperature(s) ==
    IF s = <<>> THEN Num(0)
    ELSE NumAdd(SumTemperature(Slice(s, 0, Len(s) - 1)), s[Len(s)].temperature)

\* Math.round((sum / n) * 10) / 10: Math.round rounds half up, floor(x + 1/2),
\* where x = (sum / n) * 10 is sum.v / (10 * n); the result is a whole number of
\* tenths; 0 / 0 and NaN / n are NaN
roundedAverage(sum, n) ==
    IF sum.nan \/ n = 0 THEN NaN
    ELSE Num(10 * ((2 * sum.v + 10 * n) \div (20 * n)))

----------------------------------------------------------------------------
(* MovingAverageSmoother                                                   *)

\* one element of the map callback, index 0-based (part_002, trailing window)
movingAveragePoint(points, windowSize, index) ==
    LET start == Max(0, index - windowSize + 1)
        end == index + 1
        windowData == Slice(points, start, end)
        sum == SumTemperature(windowData)
    IN  [points[index + 1] EXCEPT !.temperature = roundedAverage(sum, Len(windowData))]

\* faulty variant: only the full windows are emitted, the first windowSize - 1 points are dropped
calculateMovingAverageFullWindows(points, windowSize) ==
    [i \in 1..Max(0, Len(points) - (Max(windowSize, 1) - 1)) |->
        movingAveragePoint(points, windowSize, i + Max(windowSize, 1) - 2)]

\* faulty variant: the sum is divided by windowSize, not by the number of points in
\* the window
calculateMovingAverageFixedDivisor(points, windowSize) ==
    [i \in 1..Len(points) |->
        [points[i] EXCEPT !.temperature =
            roundedAverage(
                SumTemperature(Slice(points, Max(0, i - windowSize), i)),
                IF windowSize < 0 THEN 1 ELSE windowSize)]]

calculateMovingAverage(points, windowSize) ==
    [i \in 1..Len(points) |-> movingAveragePoint(points, windowSize, i - 1)]

\* App.tsx: the centered window, [index - floor(w/2), index + ceil(w/2))
movingAveragePointCentered(points, windowSize, index) ==
    LET start == Max(0, index - (windowSize \div 2))
        end == Min(Len(points), index + ((windowSize + 1) \div 2))
        windowData == Slice(points, start, end)
        sum == SumTemperature(windowData)
    IN  [points[index + 1] EXCEPT !.temperature = roundedAverage(sum, Len(windowData))]

calculateMovingAverageCentered(points, windowSize) ==
    [i \in 1..Len(points) |-> movingAveragePointCentered(points, windowSize, i - 1)]

----------------------------------------------------------------------------
(* SeasonClassifier                                                        *)

hoursIn5Days == 5 * 24

\* faulty variant: the whole series is searched for a value above 10
last5DaysWholeSeries(movingAvgData) == movingAvgData

\* movingAvgData.slice(-hoursIn5Days)
last5Days(movingAvgData) ==
    Slice(movingAvgData, Max(0, Len(movingAvgData) - hoursIn5Days), Len(movingAvgData))

hasBeenAbove10InLast5Days(movingAvgData) ==
    \E k \in 1..Len(last5Days(movingAvgData)) :
        NumGt(last5Days(movingAvgData)[k].temperature, 1000)

\* the two counting loops: i runs from the last element backwards, the counter
\* grows while temperature < threshold and the loop breaks at the first element
\* that is not: the greatest index that breaks, or the start of the series
loopBreakIndex(movingAvgData, threshold) ==
    LET breaks == {i \in 1..Len(movingAvgData) :
                      ~NumLt(movingAvgData[i].temperature, threshold)}
    IN  IF breaks = {} THEN 0 ELSE CHOOSE i \in breaks : \A j \in breaks : j <= i

consecutiveHoursBelow0(movingAvgData) ==
    Len(movingAvgData) - loopBreakIndex(movingAvgData, 0)

consecutiveHoursBelow10(movingAvgData) ==
    Len(movingAvgData) - loopBreakIndex(movingAvgData, 1000)

seasonWinter == [season |-> "winter", message |-> "Seems like it's winter!"]

seasonAutumn == [season |-> "autumn", message |-> "Seems like it's autumn!"]

seasonSummer == [season |-> "summer", message |-> "Seems like it's summer!"]

seasonUnknown == [season |-> "unknown", message |-> ""]

\* faulty variant: the autumn rule is tested before the winter rule
detectSeasonAutumnFirst(movingAvgData) ==
    IF consecutiveHoursBelow10(movingAvgData) >= hoursIn5Days THEN seasonAutumn
    ELSE IF consecutiveHoursBelow0(movingAvgData) >= hoursIn5Days THEN seasonWinter
    ELSE IF hasBeenAbove10InLast5Days(movingAvgData) THEN seasonSummer
    ELSE seasonUnknown

\* faulty variant: the streaks must exceed five days (> instead of >=)
detectSeasonStrictStreak(movingAvgData) ==
    IF consecutiveHoursBelow0(movingAvgData) > hoursIn5Days THEN seasonWinter
    ELSE IF consecutiveHoursBelow10(movingAvgData) > hoursIn5Days THEN seasonAutumn
    ELSE IF hasBeenAbove10InLast5Days(movingAvgData) THEN seasonSummer
    ELSE seasonUnknown

\* faulty variant: summer is only reported once five full days of data exist
detectSeasonNeedsFiveDays(movingAvgData) ==
    IF consecutiveHoursBelow0(movingAvgData) >= hoursIn5Days THEN seasonWinter
    ELSE IF consecutiveHoursBelow10(movingAvgData) >= hoursIn5Days THEN seasonAutumn
    ELSE IF Len(movingAvgData) >= hoursIn5Days /\ hasBeenAbove10InLast5Days(movingAvgData)
         THEN seasonSummer
    ELSE seasonUnknown

\* faulty variant: the winter rule is "every point of the last five days is below
\* 0", which an empty series satisfies
detectSeasonEveryBelow(movingAvgData) ==
    IF \A k \in 1..Len(last5Days(movingAvgData)) :
          NumLt(last5Days(movingAvgData)[k].temperature, 0)
    THEN seasonWinter
    ELSE IF consecutiveHoursBelow10(movingAvgData) >= hoursIn5Days THEN seasonAutumn
    ELSE IF hasBeenAbove10InLast5Days(movingAvgData) THEN seasonSummer
    ELSE seasonUnknown

detectSeason(movingAvgData) ==
    IF consecutiveHoursBelow0(movingAvgData) >= hoursIn5Days THEN seasonWinter
    ELSE IF consecutiveHoursBelow10(movingAvgData) >= hoursIn5Days THEN seasonAutumn
    ELSE IF hasBeenAbove10InLast5Days(movingAvgData) THEN seasonSummer
    ELSE seasonUnknown

----------------------------------------------------------------------------
(* SeriesNormalizer                                                        *)

Digits == <<"0", "1", "2", "3", "4", "5", "6", "7", "8", "9">>

IsDigit(c) == \E d \in 1..10 : Digits[d] = c

DigitValue(c) == (CHOOSE d \in 1..10 : Digits[d] = c) - 1

\* the index after the run of digits of text that starts at index p
DigitsEnd(text, p) ==
    CHOOSE q \in p..(Len(text) + 1) :
        /\ \A k \in p..(q - 1) : IsDigit(text[k])
        /\ q = Len(text) + 1 \/ ~IsDigit(text[q])

\* the value of the digits text[p..q-1]
RECURSIVE DigitsValue(_, _, _)
DigitsValue(text, p, q) ==
    IF q <= p THEN 0 ELSE 10 * DigitsValue(text, p, q - 1) + DigitValue(text[q - 1])

\* parseFloat(text): an optional sign, digits, an optional "." and digits; what
\* follows the longest such prefix is ignored; NaN when the prefix has no digit.
\* The result is in hundredths: the model's texts carry at most two fractional
\* digits.
parseFloat(text) ==
    LET signed == Len(text) >= 1 /\ text[1] \in {"-", "+"}
        p == IF signed THEN 2 ELSE 1
        q == DigitsEnd(text, p)
        hasPoint == q <= Len(text) /\ text[q] = "."
        r == IF hasPoint THEN DigitsEnd(text, q + 1) ELSE q
        fraction == IF hasPoint /\ r > q + 2
                    THEN 10 * DigitValue(text[q + 1]) + DigitValue(text[q + 2])
                    ELSE IF hasPoint /\ r > q + 1 THEN 10 * DigitValue(text[q + 1])
                    ELSE 0
        magnitude == 100 * DigitsValue(text, p, q) + fraction
    IN  IF q = p /\ ~(hasPoint /\ r > q + 1) THEN NaN
        ELSE IF signed /\ text[1] = "-" THEN Num(0 - magnitude)
        ELSE Num(magnitude)

\* hourly points: datetime is the hour count; time and date are its display labels
ChartPoint(dt, t) == [datetime |-> dt, temperature |-> t, time |-> dt % 24, date |-> dt \div 24]

convertApiDataToChartData(apiData) ==
    [k \in 1..Len(apiData) |->
        ChartPoint(apiData[k].datetime, parseFloat(apiData[k].temperatur))]

----------------------------------------------------------------------------
(* Payloads: what the upstream API and the bundled sample file can hold    *)

RawPoint(dt, text) == [datetime |-> dt, temperatur |-> text]

RawSeries(texts, first) == [k \in 1..Len(texts) |-> RawPoint(first + k - 1, texts[k])]

\* JSON values are immutable.  A station object, and its data array, is held in
\* the state by the station's name; stationObject gives the object it names.
\*   warmSpike: 8.0, 8.0, 12.0, 8.0: warm once, but never in the 24 h average
\*   malformed: -1.0, a malformed reading, 5.5
\*   noData:    a station object without a data array
\*   sample:    the station of ExampleData.json: 10.5, 11.0, 9.5
stationObject(name) ==
    CASE name = "warmSpike" ->
            [title |-> "Vasastan", id |-> "vasastan", temp |-> <<"8", ".", "0">>,
             data |-> RawSeries(<< <<"8", ".", "0">>, <<"8", ".", "0">>,
                                   <<"1", "2", ".", "0">>, <<"8", ".", "0">> >>, 100)]
      [] name = "malformed" ->
            [title |-> "Vasastan", id |-> "vasastan", temp |-> <<"5", ".", "5">>,
             data |-> RawSeries(<< <<"-", "1", ".", "0">>, <<"a", "b", "c">>,
                                   <<"5", ".", "5">> >>, 200)]
      [] name = "noData" ->
            [title |-> "Vasastan", id |-> "vasastan", temp |-> <<"5", ".", "5">>]
      [] name = "sample" ->
            [title |-> "Sample", id |-> "sample", temp |-> <<"9", ".", "5">>,
             data |-> RawSeries(<< <<"1", "0", ".", "5">>, <<"1", "1", ".", "0">>,
                                   <<"9", ".", "5">> >>, 300)]

\* station.data of the station named
stationData(name) == stationObject(name).data

\* station.data is an array, so that apiData.map(...) does not throw
hasData(name) == "data" \in DOMAIN stationObject(name)

\* the stations the upstream API can report
Stations == {"warmSpike", "malformed", "noData"}

\* bodies the upstream API can answer with: stations missing, empty, or one station
ApiBodies ==
    {[stations |-> <<>>], [stations |-> << <<>> >>]}
        \cup {[stations |-> << <<st>> >>] : st \in Stations}

\* ExampleData.json, the bundled sample file: one station
exampleData == [stations |-> << <<"sample">> >>]

\* apiData.stations && apiData.stations.length > 0
hasStations(body) == body.stations # <<>> /\ Len(body.stations[1]) > 0

----------------------------------------------------------------------------
(* The caching proxy (part_000)                                            *)

CACHE_DURATION_MS == 55 * 60 * 1000

emptyCache == [data |-> <<>>, timestamp |-> <<>>, stationInfo |-> <<>>]

\* faulty variant: the boundary is inclusive
isCacheValidInclusive ==
    IF cache.timestamp = <<>> \/ cache.timestamp = <<0>> \/ cache.data = <<>> THEN FALSE
    ELSE (now - cache.timestamp[1]) <= CACHE_DURATION_MS

\* function isCacheValid() of the proxy, reading cache and Date.now()
isCacheValid ==
    IF cache.timestamp = <<>> \/ cache.timestamp = <<0>> \/ cache.data = <<>> THEN FALSE
    ELSE (now - cache.timestamp[1]) < CACHE_DURATION_MS

Handlers == 1..MaxHandlers

Methods == {"GET", "OPTIONS", "POST"}

noBody == [success |-> <<>>, cached |-> <<>>, timestamp |-> <<>>, stations |-> <<>>,
           stationInfo |-> <<>>, error |-> <<>>]

\* a response of the handler; cacheStatus, maxAge and cacheTimestamp are the
\* X-Cache-Status, Cache-Control max-age and X-Cache-Timestamp headers
Response(status, cacheStatus, maxAge, cacheTimestamp, body) ==
    [statusCode |-> status, cacheStatus |-> cacheStatus, maxAge |-> maxAge,
     cacheTimestamp |-> cacheTimestamp, body |-> body]

optionsResponse == Response(200, "", <<>>, <<>>, <<>>)

methodNotAllowedResponse ==
    Response(405, "", <<>>, <<>>, <<[noBody EXCEPT !.error = <<"Method not allowed">>]>>)

\* faulty variant: the cached response is stamped with the time of the request
hitResponseStampedNow ==
    Response(200, "HIT", <<3300>>, <<now>>,
             <<[noBody EXCEPT !.success = <<TRUE>>, !.cached = <<TRUE>>,
                              !.timestamp = <<now>>,
                              !.stations = IF cache.data[1].stations = <<>>
                                           THEN << <<>> >>
                                           ELSE cache.data[1].stations,
                              !.stationInfo = cache.stationInfo]>>)

\* the response of the cache-hit branch
hitResponse ==
    Response(200, "HIT", <<3300>>, cache.timestamp,
             <<[noBody EXCEPT !.success = <<TRUE>>, !.cached = <<TRUE>>,
                              !.timestamp = cache.timestamp,
                              !.stations = IF cache.data[1].stations = <<>>
                                           THEN << <<>> >>
                                           ELSE cache.data[1].stations,
                              !.stationInfo = cache.stationInfo]>>)

\* faulty variant: the fresh response carries the indicator of the cached one
missResponseMarkedHit(apiData, t) ==
    Response(200, "HIT", <<3300>>, <<t>>,
             <<[noBody EXCEPT !.success = <<TRUE>>, !.cached = <<TRUE>>,
                              !.timestamp = <<t>>,
                              !.stations = apiData.stations,
                              !.stationInfo = <<apiData.stations[1][1]>>]>>)

missResponse(apiData, t) ==
    Response(200, "MISS", <<3300>>, <<t>>,
             <<[noBody EXCEPT !.success = <<TRUE>>, !.cached = <<FALSE>>,
                              !.timestamp = <<t>>,
                              !.stations = apiData.stations,
                              !.stationInfo = <<apiData.stations[1][1]>>]>>)

errorResponse(message, t) ==
    Response(500, "", <<>>, <<>>,
             <<[noBody EXCEPT !.success = <<FALSE>>, !.error = <<message>>,
                              !.timestamp = <<t>>]>>)

idleHandler == [pc |-> "idle", method |-> "", caller |-> "", fetches |-> 0, resp |-> <<>>]

\* faulty variant: no method check, every request is handled as a GET
handlerStartAnyMethod(h, method, caller) ==
    /\ handler[h].pc = "idle"
    /\ handler' =
          [handler EXCEPT ![h] =
             IF isCacheValid
             THEN [pc |-> "done", method |-> method, caller |-> caller,
                   fetches |-> 0, resp |-> <<hitResponse>>]
             ELSE [pc |-> "awaitUpstream", method |-> method, caller |-> caller,
                   fetches |-> 1, resp |-> <<>>]]
    /\ UNCHANGED cache

\* the handler up to its first await: OPTIONS, other methods, and GET with a cache
\* hit return at once; GET with a miss starts the upstream fetch
handlerStart(h, method, caller) ==
    /\ handler[h].pc = "idle"
    /\ LET done(resp) == [pc |-> "done", method |-> method, caller |-> caller,
                          fetches |-> 0, resp |-> <<resp>>]
       IN  handler' =
             [handler EXCEPT ![h] =
                IF method = "OPTIONS" THEN done(optionsResponse)
                ELSE IF method # "GET" THEN done(methodNotAllowedResponse)
                ELSE IF isCacheValid THEN done(hitResponse)
                ELSE [pc |-> "awaitUpstream", method |-> method, caller |-> caller,
                      fetches |-> 1, resp |-> <<>>]]
    /\ UNCHANGED cache

\* a caller other than the modelled client invokes the function
HandlerInvokeOther(h, method, limit) ==
    /\ otherCalls < limit
    /\ handlerStart(h, method, "other")
    /\ otherCalls' = otherCalls + 1
    /\ UNCHANGED <<now, ticks, clientVars, pvars>>

\* the client's axios request reaches the function
HandlerInvokeClient(h) ==
    /\ request = "sent"
    /\ handlerStart(h, "GET", "client")
    /\ request' = "served"
    /\ UNCHANGED <<now, ticks, otherCalls, build, hostname, storageWritable,
                   forceRefresh, storage, uiVars, mounted, cpc, requests, outcome,
                   seasonInput, invocations, pvars>>

\* faulty variant: the cache is updated field by field and stationInfo is left out
HandlerUpstreamResolveFieldwise(h, apiData) ==
    /\ handler[h].pc = "awaitUpstream"
    /\ IF ~hasStations(apiData)
       THEN /\ handler' = [handler EXCEPT ![h].pc = "done", ![h].resp =
                    <<errorResponse("No stations data received from API", now)>>]
            /\ UNCHANGED cache
       ELSE /\ cache' = [cache EXCEPT !.data = <<apiData>>, !.timestamp = <<now>>]
            /\ handler' = [handler EXCEPT ![h].pc = "done", ![h].resp =
                    <<missResponse(apiData, now)>>]
    /\ UNCHANGED <<now, ticks, otherCalls, clientVars, pvars>>

\* faulty variant: the cache is updated before the stations are checked
HandlerUpstreamResolveStoresFirst(h, apiData) ==
    /\ handler[h].pc = "awaitUpstream"
    /\ cache' = [data |-> <<apiData>>, timestamp |-> <<now>>,
                 stationInfo |-> IF hasStations(apiData)
                                 THEN <<apiData.stations[1][1]>> ELSE <<>>]
    /\ handler' = [handler EXCEPT ![h].pc = "done", ![h].resp =
            IF hasStations(apiData) THEN <<missResponse(apiData, now)>>
            ELSE <<errorResponse("No stations data received from API", now)>>]
    /\ UNCHANGED <<now, ticks, otherCalls, clientVars, pvars>>

\* await fetchTemperatureData() resolves with the parsed body
HandlerUpstreamResolve(h, apiData) ==
    /\ handler[h].pc = "awaitUpstream"
    /\ IF ~hasStations(apiData)
       THEN /\ handler' = [handler EXCEPT ![h].pc = "done", ![h].resp =
                    <<errorResponse("No stations data received from API", now)>>]
            /\ UNCHANGED cache
       ELSE /\ cache' = [data |-> <<apiData>>, timestamp |-> <<now>>,
                         stationInfo |-> <<apiData.stations[1][1]>>]
            /\ handler' = [handler EXCEPT ![h].pc = "done", ![h].resp =
                    <<missResponse(apiData, now)>>]
    /\ UNCHANGED <<now, ticks, otherCalls, clientVars, pvars>>

UpstreamErrors == {"Failed to parse API response", "Request timeout", "getaddrinfo ENOTFOUND"}

\* faulty variant: the request carries no timeout, so only an unparsable body
\* or a request error rejects
HandlerUpstreamRejectNoTimeout(h, message) ==
    /\ handler[h].pc = "awaitUpstream"
    /\ message # "Request timeout"
    /\ handler' = [handler EXCEPT ![h].pc = "done", ![h].resp = <<errorResponse(message, now)>>]
    /\ UNCHANGED <<now, ticks, cache, otherCalls, clientVars, pvars>>

\* await fetchTemperatureData() rejects: unparsable body, timeout, request error
HandlerUpstreamReject(h, message) ==
    /\ handler[h].pc = "awaitUpstream"
    /\ handler' = [handler EXCEPT ![h].pc = "done", ![h].resp = <<errorResponse(message, now)>>]
    /\ UNCHANGED <<now, ticks, cache, otherCalls, clientVars, pvars>>

\* the response has been delivered to a caller other than the client
HandlerRelease(h) ==
    /\ handler[h].pc = "done"
    /\ handler[h].caller = "other"
    /\ handler' = [handler EXCEPT ![h] = idleHandler]
    /\ UNCHANGED <<now, ticks, cache, otherCalls, clientVars, pvars>>

----------------------------------------------------------------------------
(* The browser client (part_002; App.tsx where build = "App.tsx")          *)

\* window.location.hostname !== 'localhost'
isProduction == hostname # "localhost"

\* part_002 calls the API directly on localhost; App.tsx always calls the function
usesDirectApi == build = "part_002" /\ ~isProduction

\* const isCacheValid = (timestamp) => (Date.now() - timestamp) < CACHE_DURATION_MS
clientIsCacheValid(timestamp) == (now - timestamp) < CACHE_DURATION_MS

\* JSON.stringify of a value and JSON.parse of a stored string: a stored string
\* is [parsed |-> <<value>>], or [parsed |-> <<>>] when JSON.parse throws on it;
\* empty marks the string of length 0, which !cachedData takes for no item
JSONstringify(value) == [empty |-> FALSE, parsed |-> <<value>>]

JSONparse(text) == text.parsed

\* faulty variant: the age of the entry is not looked at
loadFromCacheResultAnyAge ==
    IF storage = <<>> THEN <<>>
    ELSE IF storage[1].empty THEN <<>>
    ELSE IF JSONparse(storage[1]) = <<>> THEN <<>>
    ELSE LET parsed == JSONparse(storage[1])[1]
         IN  IF parsed.timestamp = <<>> \/ parsed.timestamp = <<0>>
             THEN <<>>
             ELSE <<parsed>>

\* loadFromCache(): the value returned, <<>> for null
loadFromCacheResult ==
    IF storage = <<>> THEN <<>>
    ELSE IF storage[1].empty THEN <<>>
    ELSE IF JSONparse(storage[1]) = <<>> THEN <<>>
    ELSE LET parsed == JSONparse(storage[1])[1]
         IN  IF \/ parsed.timestamp = <<>>
                \/ parsed.timestamp = <<0>>
                \/ ~clientIsCacheValid(parsed.timestamp[1])
             THEN <<>>
             ELSE <<parsed>>

\* loadFromCache(): localStorage afterwards; removeItem unless the entry is returned
loadFromCacheStorage ==
    IF storage # <<>> /\ storage[1].empty THEN storage
    ELSE IF loadFromCacheResult = <<>> THEN <<>> ELSE storage

\* saveToCache(data, stationInfo): localStorage afterwards; setItem may throw
\* (quota), which is caught and leaves the old item; dataOf names the data
\* array by its station
saveToCacheStorage(dataOf, station) ==
    IF storageWritable
    THEN <<JSONstringify([data |-> dataOf, stationInfo |-> station,
                          timestamp |-> <<now>>])>>
    ELSE storage

\* the smoothing call of the cache-hit and the fresh paths
smoothLive(chartData) ==
    IF build = "part_002" THEN calculateMovingAverage(chartData, 24)
    ELSE calculateMovingAverageCentered(chartData, 6)

\* the smoothing call of the fallback path
smoothFallback(chartData) ==
    IF build = "part_002" THEN calculateMovingAverage(chartData, 24)
    ELSE calculateMovingAverageCentered(chartData, 24)

\* faulty variant: the cache-hit path returns without annotating the data as cached
cacheHitFlagUnset == FALSE

\* setUsingCachedData(true) of the cache-hit path
cacheHitFlag == TRUE

\* fetchTemperatureData(forceRefresh) up to its first await
fetchStart(force) ==
    LET cachedData == IF force THEN <<>> ELSE loadFromCacheResult
    IN  /\ invocations' = invocations + 1
        /\ forceRefresh' = force
        /\ error' = <<>>
        /\ IF cachedData # <<>> /\ ~hasData(cachedData[1].data)
           THEN \* setStationInfo, then convertApiDataToChartData throws: catch block
                /\ storage' = loadFromCacheStorage
                /\ stationInfo' = <<cachedData[1].stationInfo>>
                /\ loading' = TRUE
                /\ usingCachedData' = FALSE
                /\ cpc' = "awaitImport"
                /\ request' = "none"
                /\ requests' = 0
                /\ outcome' = "pending"
                /\ UNCHANGED <<data, movingAverageData, seasonInput, seasonInfo,
                               lastUpdated>>
           ELSE IF cachedData # <<>>
           THEN LET chartData == convertApiDataToChartData(stationData(cachedData[1].data))
                IN  /\ storage' = loadFromCacheStorage
                    /\ stationInfo' = <<cachedData[1].stationInfo>>
                    /\ data' = chartData
                    /\ movingAverageData' = smoothLive(chartData)
                    /\ seasonInput' = <<chartData>>
                    /\ seasonInfo' = detectSeason(chartData)
                    /\ lastUpdated' = cachedData[1].timestamp
                    /\ usingCachedData' = cacheHitFlag
                    /\ loading' = FALSE
                    /\ cpc' = "idle"
                    /\ request' = "none"
                    /\ requests' = 0
                    /\ outcome' = "cacheHit"
           ELSE /\ storage' = IF force THEN storage ELSE loadFromCacheStorage
                /\ loading' = TRUE
                /\ usingCachedData' = FALSE
                /\ cpc' = IF usesDirectApi THEN "awaitDirect" ELSE "awaitFunction"
                /\ request' = IF usesDirectApi THEN "none" ELSE "sent"
                /\ requests' = 1
                /\ outcome' = "pending"
                /\ UNCHANGED <<stationInfo, data, movingAverageData, seasonInput,
                               seasonInfo, lastUpdated>>

\* useEffect(() => { fetchTemperatureData(); }, [])
Mount ==
    /\ ~mounted
    /\ mounted' = TRUE
    /\ fetchStart(FALSE)
    /\ UNCHANGED <<now, ticks, proxyVars, build, hostname, storageWritable, pvars>>

\* onClick={() => fetchTemperatureData(true)}, disabled={loading}
RefreshClick ==
    /\ mounted
    /\ ~loading
    /\ invocations < MaxInvocations
    /\ fetchStart(TRUE)
    /\ UNCHANGED <<now, ticks, proxyVars, build, hostname, storageWritable, mounted,
                   pvars>>

\* the stations branch of the try block; without a data array saveToCache and
\* setStationInfo run, then convertApiDataToChartData throws into the catch block
showFresh(station, timestamp, cached) ==
    IF ~hasData(station)
    THEN /\ storage' = saveToCacheStorage(station, station)
         /\ stationInfo' = <<station>>
         /\ cpc' = "awaitImport"
         /\ UNCHANGED <<data, movingAverageData, seasonInput, seasonInfo, lastUpdated,
                        usingCachedData, loading, error, outcome>>
    ELSE
    LET chartData == convertApiDataToChartData(stationData(station))
        movingAvg == smoothLive(chartData)
    IN  /\ storage' = saveToCacheStorage(station, station)
        /\ stationInfo' = <<station>>
        /\ data' = chartData
        /\ movingAverageData' = movingAvg
        /\ seasonInput' = <<movingAvg>>
        /\ seasonInfo' = detectSeason(movingAvg)
        /\ lastUpdated' = timestamp
        /\ usingCachedData' = cached
        /\ loading' = FALSE
        /\ cpc' = "idle"
        /\ outcome' = "fresh"
        /\ UNCHANGED error

\* the else branch: setError('No temperature data available ...')
showNoData(message) ==
    /\ error' = <<message>>
    /\ loading' = FALSE
    /\ cpc' = "idle"
    /\ outcome' = "noStations"
    /\ UNCHANGED <<storage, stationInfo, data, movingAverageData, seasonInput,
                   seasonInfo, lastUpdated, usingCachedData>>

\* a throw inside the try block: the catch block starts the import of the sample file
toFallback ==
    /\ cpc' = "awaitImport"
    /\ UNCHANGED <<storage, uiVars, seasonInput, outcome>>

\* await axios.get(functionUrl) settles with the function's response
ClientFunctionResponse(h) ==
    /\ cpc = "awaitFunction"
    /\ request = "served"
    /\ handler[h].pc = "done"
    /\ handler[h].caller = "client"
    /\ handler' = [handler EXCEPT ![h] = idleHandler]
    /\ request' = "none"
    /\ LET resp == handler[h].resp[1]
       IN  IF resp.statusCode < 200 \/ resp.statusCode > 299 THEN toFallback
           ELSE IF resp.body[1].success # <<TRUE>> THEN toFallback
           ELSE IF hasStations(resp.body[1])
           THEN showFresh(resp.body[1].stations[1][1], resp.body[1].timestamp,
                          resp.body[1].cached[1])
           ELSE showNoData(IF build = "part_002"
                           THEN "No temperature data available from the function"
                           ELSE "No temperature data available from the API")
    /\ UNCHANGED <<now, ticks, cache, otherCalls, build, hostname, storageWritable,
                   forceRefresh, mounted, requests, invocations, pvars>>

\* faulty variant: a rejected request is sent once more before giving up
ClientAxiosRejectRetries ==
    /\ cpc \in {"awaitFunction", "awaitDirect"}
    /\ handler' = [h \in DOMAIN handler |->
                     IF handler[h].caller = "client"
                     THEN [handler[h] EXCEPT !.caller = "other"]
                     ELSE handler[h]]
    /\ IF requests < 2
       THEN /\ request' = IF cpc = "awaitFunction" THEN "sent" ELSE "none"
            /\ requests' = requests + 1
            /\ UNCHANGED <<storage, uiVars, seasonInput, outcome, cpc>>
       ELSE /\ request' = "none"
            /\ toFallback
            /\ UNCHANGED requests
    /\ UNCHANGED <<now, ticks, cache, otherCalls, build, hostname, storageWritable,
                   forceRefresh, mounted, invocations, pvars>>

\* await axios.get(...) rejects: network error or the 15 s timeout; a response
\* the function produces later is dropped
ClientAxiosReject ==
    /\ cpc \in {"awaitFunction", "awaitDirect"}
    /\ request' = "none"
    /\ handler' = [h \in DOMAIN handler |->
                     IF handler[h].caller = "client"
                     THEN [handler[h] EXCEPT !.caller = "other"]
                     ELSE handler[h]]
    /\ toFallback
    /\ UNCHANGED <<now, ticks, cache, otherCalls, build, hostname, storageWritable,
                   forceRefresh, mounted, requests, invocations, pvars>>

\* local development: await axios.get(proxyUrl) settles with a body that parses
ClientDirectResponse(apiData) ==
    /\ cpc = "awaitDirect"
    /\ IF hasStations(apiData)
       THEN showFresh(apiData.stations[1][1], <<now>>, FALSE)
       ELSE showNoData("No temperature data available from the API")
    /\ UNCHANGED <<now, ticks, proxyVars, build, hostname, storageWritable,
                   forceRefresh, mounted, request, requests, invocations, pvars>>

\* local development: JSON.parse(response.data.contents) throws
ClientDirectParseError ==
    /\ cpc = "awaitDirect"
    /\ toFallback
    /\ UNCHANGED <<now, ticks, proxyVars, build, hostname, storageWritable,
                   forceRefresh, mounted, request, requests, invocations, pvars>>

\* await import('./ExampleData.json') resolves
ClientImportResolve ==
    /\ cpc = "awaitImport"
    /\ IF hasStations(exampleData)
       THEN LET station == exampleData.stations[1][1]
                chartData == convertApiDataToChartData(stationData(station))
                movingAvg == smoothFallback(chartData)
            IN  /\ stationInfo' = <<station>>
                /\ data' = chartData
                /\ movingAverageData' = movingAvg
                /\ seasonInput' = <<movingAvg>>
                /\ seasonInfo' = detectSeason(movingAvg)
                /\ error' = <<"Using sample data (API temporarily unavailable)">>
                /\ outcome' = "fallback"
       ELSE /\ outcome' = "fallbackEmpty"
            /\ UNCHANGED <<stationInfo, data, movingAverageData, seasonInput,
                           seasonInfo, error>>
    /\ loading' = FALSE
    /\ cpc' = "idle"
    /\ UNCHANGED <<now, ticks, proxyVars, build, hostname, storageWritable,
                   forceRefresh, storage, lastUpdated, usingCachedData, mounted,
                   request, requests, invocations, pvars>>

\* faulty variant: the failed fallback leaves without setLoading(false)
ClientImportRejectKeepsLoading ==
    /\ cpc = "awaitImport"
    /\ error' = <<"Failed to fetch temperature data. Please try refreshing the page.">>
    /\ outcome' = "fallbackFailed"
    /\ cpc' = "idle"
    /\ UNCHANGED <<now, ticks, proxyVars, build, hostname, storageWritable,
                   forceRefresh, storage, stationInfo, data, movingAverageData,
                   seasonInput, seasonInfo, lastUpdated, usingCachedData, mounted,
                   request, requests, invocations, loading, pvars>>

\* await import('./ExampleData.json') rejects (the chunk cannot be loaded)
ClientImportReject ==
    /\ cpc = "awaitImport"
    /\ error' = <<"Failed to fetch temperature data. Please try refreshing the page.">>
    /\ outcome' = "fallbackFailed"
    /\ loading' = FALSE
    /\ cpc' = "idle"
    /\ UNCHANGED <<now, ticks, proxyVars, build, hostname, storageWritable,
                   forceRefresh, storage, stationInfo, data, movingAverageData,
                   seasonInput, seasonInfo, lastUpdated, usingCachedData, mounted,
                   request, requests, invocations, pvars>>

\* the useState defaults of App
initialUi ==
    /\ data = <<>>
    /\ movingAverageData = <<>>
    /\ loading = FALSE
    /\ error = <<>>
    /\ stationInfo = <<>>
    /\ seasonInfo = seasonUnknown
    /\ lastUpdated = <<>>
    /\ usingCachedData = FALSE

\* the page is loaded again between two invocations: the component state starts
\* over, localStorage stays
Reload ==
    /\ mounted
    /\ cpc = "idle"
    /\ invocations < MaxInvocations
    /\ mounted' = FALSE
    /\ data' = <<>>
    /\ movingAverageData' = <<>>
    /\ loading' = FALSE
    /\ error' = <<>>
    /\ stationInfo' = <<>>
    /\ seasonInfo' = seasonUnknown
    /\ lastUpdated' = <<>>
    /\ usingCachedData' = FALSE
    /\ outcome' = "none"
    /\ requests' = 0
    /\ seasonInput' = <<>>
    /\ forceRefresh' = FALSE
    /\ UNCHANGED <<now, ticks, proxyVars, build, hostname, storageWritable, storage,
                   cpc, request, invocations, pvars>>

----------------------------------------------------------------------------
(* The clock                                                               *)

\* the clock advances by 1 ms or by 1 ms less than the time to live
TickSizes == {1, CACHE_DURATION_MS - 1}

\* the clock is followed for one time to live after the start
LastTime == StartTime + CACHE_DURATION_MS

Tick(d) ==
    /\ ticks < MaxTicks
    /\ now + d <= LastTime
    /\ ticks' = ticks + 1
    /\ now' = now + d
    /\ UNCHANGED <<proxyVars, clientVars, pvars>>

----------------------------------------------------------------------------
(* The system: proxy, client and clock                                     *)

\* localStorage as an earlier session or the user left it: nothing, the empty
\* string, a string that is not JSON, an entry without timestamp, an entry one
\* ms short of the TTL
InitialStorage ==
    {<<>>,
     <<[empty |-> TRUE, parsed |-> <<>>]>>,
     <<[empty |-> FALSE, parsed |-> <<>>]>>,
     <<JSONstringify([data |-> "malformed", stationInfo |-> "malformed",
                      timestamp |-> <<>>])>>,
     <<JSONstringify([data |-> "warmSpike", stationInfo |-> "warmSpike",
                      timestamp |-> <<StartTime - (CACHE_DURATION_MS - 1)>>])>>}

pipelineOff ==
    /\ pin = <<>>
    /\ pw = 24
    /\ pout = <<>>
    /\ pseasonIn = <<>>
    /\ pseason = seasonUnknown
    /\ pstage = "off"

\* the state of the proxy process when it starts, with its invocation slots
proxyInit(slots) ==
    /\ now = StartTime
    /\ ticks = 0
    /\ cache = emptyCache
    /\ handler = [h \in slots |-> idleHandler]
    /\ otherCalls = 0

\* the client before the page is mounted
clientInit ==
    /\ initialUi
    /\ mounted = FALSE
    /\ cpc = "idle"
    /\ forceRefresh = FALSE
    /\ request = "none"
    /\ requests = 0
    /\ outcome = "none"
    /\ seasonInput = <<>>
    /\ invocations = 0

\* Spec: one browser client and the function it calls, which serves one request
\* at a time; in App.tsx the hostname only selects the function's URL
Init ==
    /\ proxyInit({1})
    /\ build \in {"part_002", "App.tsx"}
    /\ hostname \in {"localhost", "temperature.example"}
    /\ build = "App.tsx" => hostname = "temperature.example"
    /\ storage \in InitialStorage
    /\ storageWritable \in IF storage = <<>> THEN BOOLEAN ELSE {TRUE}
    /\ clientInit
    /\ pipelineOff

\* the steps of the function: other callers make up to limit invocations with a
\* method of methods, and a failing upstream fetch rejects with a message of errors
ProxyStep(limit, methods, errors) ==
    \/ \E h \in DOMAIN handler, m \in methods : HandlerInvokeOther(h, m, limit)
    \/ \E h \in DOMAIN handler, b \in ApiBodies : HandlerUpstreamResolve(h, b)
    \/ \E h \in DOMAIN handler, e \in errors : HandlerUpstreamReject(h, e)
    \/ \E h \in DOMAIN handler : HandlerRelease(h)

ClientStep ==
    \/ \E h \in DOMAIN handler : HandlerInvokeClient(h)
    \/ Mount
    \/ RefreshClick
    \/ \E h \in DOMAIN handler : ClientFunctionResponse(h)
    \/ ClientAxiosReject
    \/ \E b \in ApiBodies : ClientDirectResponse(b)
    \/ ClientDirectParseError
    \/ ClientImportResolve
    \/ ClientImportReject
    \/ Reload

\* other visitors of the page send GET; the client never reads the message of a
\* failed response, so one message stands for all of them here
Next ==
    \/ \E d \in TickSizes : Tick(d)
    \/ ProxyStep(MaxVisitors, {"GET"}, {"Request timeout"})
    \/ ClientStep

Spec == Init /\ [][Next]_vars

\* the timers of the code: req.on('timeout') fires 10 s after an unanswered
\* request (timeout: 10000), axios rejects after 15 s (timeout: 15000); whether
\* the upstream or the function ever answers is left open (Spec has one slot)
Timers ==
    /\ WF_vars(HandlerUpstreamReject(1, "Request timeout"))
    /\ WF_vars(ClientAxiosReject)

\* a first visit: localStorage is empty and can be written
LiveInit ==
    /\ Init
    /\ storage = <<>>
    /\ storageWritable

\* LiveSpec: the client and the function from a first visit, timers running
LiveSpec == LiveInit /\ [][Next]_vars /\ Timers

\* ProxySpec: the function alone, invoked concurrently by any callers
ProxyInit ==
    /\ proxyInit(Handlers)
    /\ build = "part_002"
    /\ hostname = "temperature.example"
    /\ storage = <<>>
    /\ storageWritable = TRUE
    /\ clientInit
    /\ pipelineOff

ProxyNext ==
    \/ \E d \in TickSizes : Tick(d)
    \/ ProxyStep(MaxOtherCalls, Methods, UpstreamErrors)

ProxySpec == ProxyInit /\ [][ProxyNext]_vars

----------------------------------------------------------------------------
(* Inputs of the pipeline check                                            *)

\* temperatures: -1.0, -0.25, 0, 8.0, 10.0, 10.1 and NaN
TempValues == {Num(0 - 100), Num(0 - 25), Num(0), Num(800), Num(1000), Num(1010), NaN}

\* -1.0, 0, 5.0, 10.0, 10.1 and NaN
LongValues == {Num(0 - 100), Num(0), Num(500), Num(1000), Num(1010), NaN}

\* point k of a series has datetime first + k - 1
SeriesOf(temps, first) == [k \in 1..Len(temps) |-> ChartPoint(first + k - 1, temps[k])]

Rep(x, n) == [k \in 1..n |-> x]

ShortTemps == UNION {[1..n -> TempValues] : n \in 0..MaxLen}

LongTemps ==
    {Rep(a, i) \o Rep(b, hoursIn5Days - 1) \o Rep(c, j) :
        a \in LongValues, b \in LongValues, c \in LongValues,
        i \in 0..MaxPad, j \in 0..MaxPad}

\* the windowSize arguments: the program's 6 and 24, small windows, 0 and -1
WindowSizes == ((0 - 1)..MaxWindow) \cup {6, 24}

----------------------------------------------------------------------------
(* The pipeline check: the pure functions applied to drawn inputs          *)

systemOff ==
    /\ proxyInit({1})
    /\ build = "part_002"
    /\ hostname = "localhost"
    /\ storage = <<>>
    /\ storageWritable = TRUE
    /\ clientInit

PInit ==
    /\ systemOff
    /\ \/ /\ pin \in {SeriesOf(t, 7) : t \in ShortTemps}
          /\ pw \in WindowSizes
       \/ /\ pin \in {SeriesOf(t, 7) : t \in LongTemps}
          /\ pw = 24
    /\ pout = <<>>
    /\ pseasonIn = <<>>
    /\ pseason = seasonUnknown
    /\ pstage = "input"

\* calculateMovingAverage(pin, pw) of part_002
PSmooth ==
    /\ pstage = "input"
    /\ pout' = calculateMovingAverage(pin, pw)
    /\ pstage' = "smoothed"
    /\ UNCHANGED <<pin, pw, pseasonIn, pseason, now, ticks, proxyVars, clientVars>>

\* calculateMovingAverage(pin, pw) of App.tsx
PSmoothCentered ==
    /\ pstage = "input"
    /\ pout' = calculateMovingAverageCentered(pin, pw)
    /\ pstage' = "smoothedCentered"
    /\ UNCHANGED <<pin, pw, pseasonIn, pseason, now, ticks, proxyVars, clientVars>>

\* detectSeason of the series at hand: the input, or the smoothed series
PClassify ==
    /\ pstage \in {"input", "smoothed", "smoothedCentered"}
    /\ pseasonIn' = IF pstage = "input" THEN pin ELSE pout
    /\ pseason' = detectSeason(pseasonIn')
    /\ pstage' = "classified"
    /\ UNCHANGED <<pin, pw, pout, now, ticks, proxyVars, clientVars>>

PNext == PSmooth \/ PSmoothCentered \/ PClassify

PipelineSpec == PInit /\ [][PNext]_vars

----------------------------------------------------------------------------
(* Properties of the pure pipeline, checked under PipelineSpec             *)

\* the last n values of s exist and are all below c hundredths of a degree
TrailingRunAtLeast(s, c, n) ==
    /\ Len(s) >= n
    /\ \A k \in (Len(s) - n + 1)..Len(s) : (~s[k].temperature.nan) /\ s[k].temperature.v < c

\* one of the last min(n, Len(s)) values of s is above c hundredths of a degree
AnyAboveInLast(s, c, n) ==
    \E k \in Max(1, Len(s) - n + 1)..Len(s) : (~s[k].temperature.nan) /\ s[k].temperature.v > c

RECURSIVE SumRange(_, _, _)
SumRange(s, lo, hi) == IF lo > hi THEN 0 ELSE s[lo].temperature.v + SumRange(s, lo + 1, hi)

\* r is the average of s[lo..hi] rounded to one decimal (to the nearest tenth, half up)
IsRoundedAverage(r, s, lo, hi) ==
    IF \E k \in lo..hi : s[k].temperature.nan THEN r.nan
    ELSE /\ ~r.nan
         /\ r.v % 10 = 0
         /\ 2 * (hi - lo + 1) * r.v <= 2 * SumRange(s, lo, hi) + 10 * (hi - lo + 1)
         /\ 2 * SumRange(s, lo, hi) + 10 * (hi - lo + 1) < 2 * (hi - lo + 1) * (r.v + 10)

\* C5: the verdict of detectSeason is winter if the trailing run of values < 0 has
\* length >= 120; otherwise autumn if the trailing run of values < 10 has length
\* >= 120; otherwise summer if one of the last min(120, length) values is > 10;
\* otherwise unknown with an empty message.
C5_SeasonDecisionRule ==
    pstage = "classified" =>
        pseason =
            IF TrailingRunAtLeast(pseasonIn, 0, 120)
            THEN [season |-> "winter", message |-> "Seems like it's winter!"]
            ELSE IF TrailingRunAtLeast(pseasonIn, 1000, 120)
            THEN [season |-> "autumn", message |-> "Seems like it's autumn!"]
            ELSE IF AnyAboveInLast(pseasonIn, 1000, 120)
            THEN [season |-> "summer", message |-> "Seems like it's summer!"]
            ELSE [season |-> "unknown", message |-> ""]

\* a series whose last 120 points are all 5.0 has been classified (autumn)
C5_Witness ==
    /\ pstage = "classified"
    /\ Len(pseasonIn) >= 120
    /\ \A k \in (Len(pseasonIn) - 119)..Len(pseasonIn) : pseasonIn[k].temperature = Num(500)
    /\ pseason.season = "autumn"

\* C6: a series whose last 120 values are all below 0 is classified winter, never
\* autumn.
C6_WinterBeforeAutumn ==
    (pstage = "classified" /\ TrailingRunAtLeast(pseasonIn, 0, 120)) =>
        (pseason.season = "winter" /\ pseason.season # "autumn")

\* a series whose last 120 points are all -1.0 has been classified
C6_Witness ==
    /\ pstage = "classified"
    /\ Len(pseasonIn) >= 120
    /\ \A k \in (Len(pseasonIn) - 119)..Len(pseasonIn) : pseasonIn[k].temperature = Num(0 - 100)

\* C7: a series with a value > 10 among its last min(120, length) values and with
\* neither trailing run of 120 is classified summer.
C7_SummerOnRecentWarmth ==
    (/\ pstage = "classified"
     /\ AnyAboveInLast(pseasonIn, 1000, 120)
     /\ ~TrailingRunAtLeast(pseasonIn, 0, 120)
     /\ ~TrailingRunAtLeast(pseasonIn, 1000, 120)) =>
        pseason.season = "summer"

\* a series shorter than 120 points, all 8.0 but one point above 10, not the last,
\* has been classified
C7_Witness ==
    /\ pstage = "classified"
    /\ Len(pseasonIn) \in 2..119
    /\ pseasonIn[Len(pseasonIn)].temperature = Num(800)
    /\ \E k \in 1..Len(pseasonIn) :
        /\ pseasonIn[k].temperature.v > 1000
        /\ \A j \in (1..Len(pseasonIn)) \ {k} : pseasonIn[j].temperature = Num(800)

\* element i (1-based) of the smoothed series is the rounded average of exactly the
\* source values at max(1, i - w + 1) .. i
TrailingWindowHolds ==
    /\ Len(pout) = Len(pin)
    /\ \A i \in 1..Len(pout) :
        IsRoundedAverage(pout[i].temperature, pin, Max(1, i - pw + 1), i)

\* C9: for every series, window size > 0 and index i, element i of
\* calculateMovingAverage is the rounded average of exactly the source values at
\* max(0, i - windowSize + 1) .. i: in part_002 and in App.tsx.
C9_TrailingWindow ==
    (pstage \in {"smoothed", "smoothedCentered"} /\ pw > 0) => TrailingWindowHolds

\* C9, holding for the calculateMovingAverage of part_002 alone
C9_TrailingWindowPart002 ==
    (pstage = "smoothed" /\ pw > 0) => TrailingWindowHolds

\* C10: calculateMovingAverage(S, w), w > 0, has the length of S and its element i
\* has the datetime of element i of S.
C10_SmoothingPreservesShape ==
    (pstage \in {"smoothed", "smoothedCentered"} /\ pw > 0) =>
        /\ Len(pout) = Len(pin)
        /\ \A i \in 1..Len(pin) : pout[i].datetime = pin[i].datetime

\* a series of several points has been smoothed with a window that reaches
\* before its first point
C10_Witness ==
    /\ pstage = "smoothed"
    /\ Len(pin) >= 2
    /\ pw > Len(pin)
    /\ Len(pout) = Len(pin)


\* C11: for every non-empty series S and every window size w > 0, the first
\* element of calculateMovingAverage(S, w) has exactly the temperature of S[0]:
\* in part_002 and in App.tsx.
C11_LeftBoundary ==
    (pstage \in {"smoothed", "smoothedCentered"} /\ pw > 0 /\ Len(pin) > 0) =>
        pout[1].temperature = pin[1].temperature

\* every value of the series s is c
IsConstant(s, c) == \A k \in 1..Len(s) : s[k].temperature = c

\* c to the nearest tenth of a degree, a half rounding up
nearestTenth(c) == IF c.nan THEN NaN ELSE Num(10 * ((c.v + 5) \div 10))

C13_NonPositiveWindow ==
    /\ pw <= 0 => pstage # "smoothed"
    /\ (pstage = "smoothed" /\ pw <= 0) =>
          \A k \in 1..Len(pout) : ~pout[k].temperature.nan

\* C15: detectSeason of a series with zero samples is season unknown with an
\* empty message.
C15_EmptySeriesUnknown ==
    (pstage = "classified" /\ pseasonIn = <<>>) =>
        pseason = [season |-> "unknown", message |-> ""]

\* the empty series has been classified
C15_Witness ==
    /\ pstage = "classified"
    /\ pin = <<>>
    /\ pseasonIn = <<>>

----------------------------------------------------------------------------
(* Claims about the caches and fetchTemperatureData, checked under Spec    *)

\* 55 minutes in milliseconds, as the specification states the time to live
ttl == 3300000

\* the proxy's cache holds an entry
cacheEntryExists == cache.data # <<>> /\ cache.timestamp # <<>>

\* the timestamps of the entry localStorage holds, if it holds one that parses
storedTimestamps ==
    IF storage = <<>> \/ storage[1].parsed = <<>> THEN {}
    ELSE IF storage[1].parsed[1].timestamp = <<>> THEN {}
    ELSE {storage[1].parsed[1].timestamp[1]}

\* C1: in every state, the proxy's isCacheValid is true exactly when its cache
\* holds an entry and now - timestamp is less than 3,300,000 ms, and the
\* client's isCacheValid of a stored timestamp is true exactly when
\* now - timestamp is less than 3,300,000 ms; so both are false at an age of
\* exactly 3,300,000 ms and true at 3,299,999 ms.
C1_CacheValidity ==
    /\ isCacheValid <=> (cacheEntryExists /\ now - cache.timestamp[1] < ttl)
    /\ cacheEntryExists /\ now - cache.timestamp[1] = ttl => ~isCacheValid
    /\ cacheEntryExists /\ now - cache.timestamp[1] = ttl - 1 => isCacheValid
    /\ \A t \in storedTimestamps :
          /\ clientIsCacheValid(t) <=> now - t < ttl
          /\ now - t = ttl => loadFromCacheResult = <<>>
          /\ now - t = ttl - 1 => loadFromCacheResult # <<>>

\* the proxy's entry is exactly 3,300,000 ms old and is judged stale
C1_Witness ==
    /\ cacheEntryExists
    /\ now - cache.timestamp[1] = ttl
    /\ ~isCacheValid

\* the entry localStorage holds, when it parses and is younger than the ttl
validStoredEntry ==
    IF storedTimestamps = {} THEN <<>>
    ELSE IF \E t \in storedTimestamps : now - t < ttl THEN <<storage[1].parsed[1]>>
    ELSE <<>>

\* C2: a fetchTemperatureData() without force refresh that finds a valid stored
\* entry ends at once with that entry's data shown, usingCachedData true and no
\* request sent; a GET that the handler starts while its cache entry is valid
\* is answered at once with the cached stations, cached: true and no upstream
\* fetch.
C2_CacheHit ==
    [][/\ (~mounted /\ mounted' /\ validStoredEntry # <<>>) =>
            /\ usingCachedData' = TRUE
            /\ requests' = 0
            /\ request' = "none"
            /\ cpc' = "idle"
            /\ loading' = FALSE
            /\ data' = convertApiDataToChartData(stationData(validStoredEntry[1].data))
            /\ lastUpdated' = validStoredEntry[1].timestamp
            /\ handler' = handler
       /\ \A h \in DOMAIN handler :
            (/\ handler[h].pc = "idle"
             /\ handler'[h].pc # "idle"
             /\ handler'[h].method = "GET"
             /\ cacheEntryExists
             /\ now - cache.timestamp[1] < ttl) =>
                /\ handler'[h].pc = "done"
                /\ handler'[h].fetches = 0
                /\ handler'[h].resp[1].statusCode = 200
                /\ handler'[h].resp[1].body[1].cached = <<TRUE>>
                /\ handler'[h].resp[1].body[1].stations = cache.data[1].stations
                /\ handler'[h].resp[1].body[1].timestamp = cache.timestamp
                /\ cache' = cache]_vars

\* the client has shown its stored entry and the handler has answered from its cache
C2_Witness ==
    /\ outcome = "cacheHit"
    /\ usingCachedData
    /\ requests = 0
    /\ \E h \in DOMAIN handler :
          /\ handler[h].pc = "done"
          /\ handler[h].resp[1].cacheStatus = "HIT"
          /\ handler[h].fetches = 0

\* C3: a fetchTemperatureData(true) never takes the cache-hit path and sends
\* its request, and when it ends with fetched data shown, usingCachedData is
\* false and (localStorage accepting writes) the shown station is stored.
C3_ForceRefreshFresh ==
    forceRefresh =>
        /\ outcome # "cacheHit"
        /\ requests = 1
        /\ outcome = "fresh" =>
              /\ usingCachedData = FALSE
              /\ storageWritable =>
                    /\ storage # <<>>
                    /\ storage[1].parsed # <<>>
                    /\ <<storage[1].parsed[1].data>> = stationInfo

\* the outcomes of an invocation whose upstream call failed
failureOutcomes == {"noStations", "fallback", "fallbackEmpty", "fallbackFailed"}

\* C4: an invocation whose upstream call failed (rejected request, non-2xx,
\* success: false, empty or missing station list) ends with the sample station
\* normalized, smoothed and classified on display, and the sample-data warning
\* as the message.
C4_FallbackOnFailure ==
    (cpc = "idle" /\ outcome \in failureOutcomes) =>
        LET chartData == convertApiDataToChartData(stationData("sample"))
        IN  /\ stationInfo = <<"sample">>
            /\ data = chartData
            /\ movingAverageData = smoothFallback(chartData)
            /\ seasonInfo = detectSeason(movingAverageData)
            /\ error = <<"Using sample data (API temporarily unavailable)">>

\* C8: whenever fetchTemperatureData has set the season verdict, the series it
\* passed to detectSeason is the trailing 24-point average of the normalized
\* data on display, and the verdict is detectSeason of that series.
C8_ClassifierInputTrailing ==
    seasonInput # <<>> =>
        /\ seasonInput[1] = calculateMovingAverage(data, 24)
        /\ seasonInfo = detectSeason(calculateMovingAverage(data, 24))


\* the temperature text of a raw reading is numeric: after an optional sign it
\* starts with a digit, or with "." and a digit
numericReading(reading) ==
    LET text == reading.temperatur
        p == IF Len(text) >= 1 /\ text[1] \in {"-", "+"} THEN 2 ELSE 1
    IN  \/ p <= Len(text) /\ IsDigit(text[p])
        \/ p + 1 <= Len(text) /\ text[p] = "." /\ IsDigit(text[p + 1])

\* C14: the normalized series on display holds exactly the readings of the
\* station's raw list whose temperature text is numeric, in their order, and
\* neither it nor the series smoothed from it holds a NaN.
C14_MalformedDropped ==
    (stationInfo # <<>> /\ hasData(stationInfo[1])) =>
        LET kept == SelectSeq(stationData(stationInfo[1]), numericReading)
        IN  /\ Len(data) = Len(kept)
            /\ \A k \in 1..Len(kept) : data[k].datetime = kept[k].datetime
            /\ \A k \in 1..Len(data) : ~data[k].temperature.nan
            /\ \A k \in 1..Len(movingAverageData) : ~movingAverageData[k].temperature.nan


----------------------------------------------------------------------------
(* Claims about the function alone, checked under ProxySpec                *)

\* the responses of the invocations of method m that have returned
returned(m) ==
    {handler[h].resp[1] : h \in {k \in DOMAIN handler :
                                    handler[k].pc = "done" /\ handler[k].method = m}}

\* C16: a GET whose upstream fetch failed is answered with status 200, success
\* false, an error string and a timestamp; no GET is answered with a 5xx status.
C16_FailureIs200 ==
    \A resp \in returned("GET") :
        /\ resp.statusCode < 500
        /\ resp.body[1].success = <<FALSE>> =>
              /\ resp.statusCode = 200
              /\ resp.body[1].error # <<>>
              /\ resp.body[1].timestamp # <<>>

\* C17: the cache changes only in a step in which an invocation's upstream fetch
\* returned a body with a non-empty stations array, and then to that body; a
\* step in which an invocation ends with a failure or with a cache hit, or with
\* the answer to another method, leaves the cache as it was.
C17_CacheWrittenOnlyOnSuccess ==
    [][/\ cache' # cache =>
            \E h \in DOMAIN handler :
                /\ handler[h].pc = "awaitUpstream"
                /\ handler'[h].pc = "done"
                /\ handler'[h].resp[1].body[1].success = <<TRUE>>
                /\ handler'[h].resp[1].body[1].stations # <<>>
                /\ Len(handler'[h].resp[1].body[1].stations[1]) > 0
                /\ cache'.data # <<>>
                /\ cache'.data[1].stations = handler'[h].resp[1].body[1].stations
                /\ cache'.timestamp = <<now>>
       /\ \A h \in DOMAIN handler :
            (/\ handler[h].pc # "done"
             /\ handler'[h].pc = "done"
             /\ \/ handler'[h].resp[1].statusCode # 200
                \/ handler'[h].fetches = 0) =>
                cache' = cache]_vars

\* an upstream fetch has failed while the cache held an entry, which is still there
C17_Witness ==
    /\ cacheEntryExists
    /\ \E h \in DOMAIN handler :
          /\ handler[h].pc = "done"
          /\ handler[h].fetches = 1
          /\ handler[h].resp[1].body[1].success = <<FALSE>>

\* C18: a successful GET response carries X-Cache-Status HIT and cached: true
\* exactly when its invocation made no upstream fetch, MISS and cached: false
\* exactly when it made one, and in both cases max-age 3300 s, the 55 minutes
\* of the time to live.
C18_CacheStatusIndicator ==
    \A h \in DOMAIN handler :
        (/\ handler[h].pc = "done"
         /\ handler[h].method = "GET"
         /\ handler[h].resp[1].body[1].success = <<TRUE>>) =>
            LET resp == handler[h].resp[1]
            IN  /\ resp.statusCode = 200
                /\ resp.cacheStatus \in {"HIT", "MISS"}
                /\ resp.cacheStatus = "HIT" <=> handler[h].fetches = 0
                /\ resp.cacheStatus = "MISS" <=> handler[h].fetches = 1
                /\ resp.body[1].cached = <<resp.cacheStatus = "HIT">>
                /\ resp.maxAge = <<3300>>
                /\ resp.maxAge[1] * 1000 = ttl
                /\ ttl = CACHE_DURATION_MS

\* one invocation has returned a MISS and another a HIT
C18_Witness ==
    /\ \E h \in DOMAIN handler :
          handler[h].pc = "done" /\ handler[h].resp[1].cacheStatus = "MISS"
    /\ \E h \in DOMAIN handler :
          handler[h].pc = "done" /\ handler[h].resp[1].cacheStatus = "HIT"

\* C19: an OPTIONS request is answered at once with status 200 and an empty
\* body, a request of a method other than GET and OPTIONS at once with status
\* 405, whatever the cache holds; neither changes the cache nor starts an
\* upstream fetch.
C19_MethodHandling ==
    [][\A h \in DOMAIN handler :
          (/\ handler[h].pc = "idle"
           /\ handler'[h].pc # "idle"
           /\ handler'[h].method # "GET") =>
              /\ handler'[h].pc = "done"
              /\ handler'[h].fetches = 0
              /\ cache' = cache
              /\ handler'[h].resp[1].cacheStatus = ""
              /\ IF handler'[h].method = "OPTIONS"
                 THEN /\ handler'[h].resp[1].statusCode = 200
                      /\ handler'[h].resp[1].body = <<>>
                 ELSE handler'[h].resp[1].statusCode = 405]_vars

\* an OPTIONS and a POST request have been answered, one of them while the
\* cache held a valid entry
C19_Witness ==
    /\ isCacheValid
    /\ returned("OPTIONS") # {}
    /\ returned("POST") # {}

\* C20: the cache entry is never replaced while it is valid: a step that changes
\* the cache starts in a state where no entry exists or now - timestamp is at
\* least the time to live.
C20_ValidEntryReadOnly ==
    [][cache' # cache => ~(cacheEntryExists /\ now - cache.timestamp[1] < ttl)]_vars


\* C21: in every state, also between the awaits of concurrent invocations, the
\* cache is entirely empty or its three fields come from one store: data has a
\* non-empty stations array, stationInfo is its first station and timestamp is
\* a clock value not after now.
C21_NoHalfWrittenEntry ==
    \/ cache = emptyCache
    \/ /\ cache.data # <<>>
       /\ cache.timestamp # <<>>
       /\ cache.stationInfo # <<>>
       /\ hasStations(cache.data[1])
       /\ cache.stationInfo[1] = cache.data[1].stations[1][1]
       /\ cache.timestamp[1] \in StartTime..now

\* two invocations have stored one after the other: the cache holds the second
\* store whole, the first response shows the station that was replaced
C21_Witness ==
    /\ cache.data # <<>>
    /\ \E h \in DOMAIN handler :
          /\ handler[h].pc = "done"
          /\ handler[h].resp[1].cacheStatus = "MISS"
          /\ handler[h].resp[1].body[1].stationInfo # cache.stationInfo
          /\ cache.stationInfo[1] = cache.data[1].stations[1][1]


----------------------------------------------------------------------------
(* Further claims about the client with the function, checked under Spec   *)

\* C22: an invocation of the handler makes at most one upstream fetch, started
\* when the invocation starts; an invocation of fetchTemperatureData sends at
\* most one request, and a request is sent only by the step that starts an
\* invocation (mount or Refresh click), never after a request has failed.
C22_NoAutomaticRetry ==
    [][/\ \A h \in DOMAIN handler :
            /\ handler'[h].fetches <= 1
            /\ handler'[h].fetches > handler[h].fetches => handler[h].pc = "idle"
       /\ requests' <= 1
       /\ requests' > requests => invocations' = invocations + 1
       /\ (request' = "sent" /\ request # "sent") => invocations' = invocations + 1
       /\ cpc = "awaitImport" => (request' = "none" /\ requests' = requests)]_vars

\* an invocation of fetchTemperatureData has ended on the fallback after its one
\* request failed, and an invocation of the handler has returned a failure after
\* its one fetch
C22_Witness ==
    /\ cpc = "idle"
    /\ outcome \in {"fallback", "fallbackFailed"}
    /\ requests = 1
    /\ \E h \in DOMAIN handler :
          /\ handler[h].pc = "done"
          /\ handler[h].fetches = 1
          /\ handler[h].resp[1].statusCode = 500


\* C23: an upstream fetch started by the handler ends, with a response or with
\* the timeout failure, so that the invocation returns a response; a request
\* sent by the client ends, with a response or with a failure.
C23_BoundedUpstreamWait ==
    /\ (handler[1].pc = "awaitUpstream") ~> (handler[1].pc = "done" /\ handler[1].resp # <<>>)
    /\ (cpc \in {"awaitFunction", "awaitDirect"}) ~> (cpc \notin {"awaitFunction", "awaitDirect"})

\* the handler has returned the timeout failure of a fetch, and the client's
\* request has ended in a failure
C23_Witness ==
    /\ \E h \in DOMAIN handler :
          /\ handler[h].pc = "done"
          /\ handler[h].fetches = 1
          /\ handler[h].resp[1].statusCode = 500
          /\ handler[h].resp[1].body[1].error = <<"Request timeout">>
    /\ outcome \in failureOutcomes
    /\ cpc = "idle"


\* the item under the key is a non-empty string that parses to an entry with a
\* timestamp younger than the ttl
storedEntryUsable ==
    /\ storage # <<>>
    /\ storage[1].parsed # <<>>
    /\ storage[1].parsed[1].timestamp # <<>>
    /\ now - storage[1].parsed[1].timestamp[1] < ttl

\* the step is an invocation that calls loadFromCache: the one of the mount
callsLoadFromCache == ~mounted /\ mounted'

\* the step uses the stored entry, which loadFromCache returned, and keeps it:
\* it sets the entry's station, then shows its data if it has a data array
returnsStoredEntry ==
    /\ stationInfo' = <<storage[1].parsed[1].stationInfo>>
    /\ requests' = 0
    /\ storage' = storage
    /\ hasData(storage[1].parsed[1].data) =>
          /\ outcome' = "cacheHit"
          /\ data' = convertApiDataToChartData(stationData(storage[1].parsed[1].data))
          /\ lastUpdated' = storage[1].parsed[1].timestamp

\* C24 as stated: loadFromCache returns the stored entry exactly when an item
\* exists, parses and is younger than 55 minutes; any other existing item is
\* removed and null is returned; the state of the proxy's cache plays no part.
C24_CacheRead ==
    [][callsLoadFromCache =>
          IF storedEntryUsable THEN returnsStoredEntry
          ELSE /\ requests' = 1
               /\ storage' = <<>>]_vars

\* C24, amended: as above, except that an item holding the empty string is
\* taken for no item: null is returned and the item stays.
C24_CacheReadNonEmpty ==
    [][callsLoadFromCache =>
          IF storedEntryUsable THEN returnsStoredEntry
          ELSE /\ requests' = 1
               /\ storage' = IF storage # <<>> /\ storage[1].empty THEN storage ELSE <<>>]_vars

\* the stored entry has been returned and shown while the proxy's cache holds a
\* later entry of another station
C24_Witness ==
    /\ outcome = "cacheHit"
    /\ storedEntryUsable
    /\ lastUpdated = storage[1].parsed[1].timestamp
    /\ cacheEntryExists
    /\ cache.stationInfo # <<storage[1].parsed[1].stationInfo>>


\* C25: an invocation served from the local cache holding the payload of a
\* station shows what the invocation that fetched that payload fresh shows: the
\* same normalized series, the same smoothed series and the same season verdict.
C25_CacheHitAgreesWithFresh ==
    (cpc = "idle" /\ outcome = "cacheHit") =>
        LET chartData == convertApiDataToChartData(stationData(stationInfo[1]))
            movingAvg == smoothLive(chartData)
        IN  /\ data = chartData
            /\ movingAverageData = movingAvg
            /\ seasonInfo = detectSeason(movingAvg)


\* C26: the steps of the fallback path, into the catch block and out of it,
\* leave localStorage as it is; no stored entry holds the sample dataset, and an
\* invocation served from the local cache never shows the sample station.
C26_SampleNeverCached ==
    [][/\ (cpc = "awaitImport" \/ cpc' = "awaitImport") => storage' = storage
       /\ (storage' # <<>> /\ storage'[1].parsed # <<>>) =>
             storage'[1].parsed[1].stationInfo # "sample"
       /\ outcome' = "cacheHit" => stationInfo' # <<"sample">>]_vars


\* C27: loading is true exactly while an invocation of fetchTemperatureData is
\* in flight, so it is false once the invocation has finished on any path; and
\* an invocation starts only when none is in flight and loading is false.
C27_LoadingFlag ==
    [][/\ loading' <=> (cpc' # "idle")
       /\ invocations' > invocations => (cpc = "idle" /\ ~loading)]_vars

\* a second invocation, started by a Refresh click after the first had finished,
\* has finished with the fallback failed, and loading is false
C27_Witness ==
    /\ invocations = 2
    /\ forceRefresh
    /\ cpc = "idle"
    /\ outcome = "fallbackFailed"
    /\ ~loading


\* C28: once an invocation has finished, a non-null lastUpdated belongs to the
\* payload on display and usingCachedData is true only for a series taken from
\* a cache: after a local cache hit lastUpdated is the store time of the entry
\* and usingCachedData is true, and while the sample dataset is on display
\* lastUpdated is null and usingCachedData is false.
C28_MetadataMatchesData ==
    cpc = "idle" =>
        /\ outcome = "cacheHit" =>
              /\ usingCachedData
              /\ storage # <<>> /\ storage[1].parsed # <<>>
              /\ lastUpdated = storage[1].parsed[1].timestamp
              /\ stationInfo = <<storage[1].parsed[1].stationInfo>>
        /\ stationInfo = <<"sample">> =>
              /\ lastUpdated = <<>>
              /\ ~usingCachedData


----------------------------------------------------------------------------
(* Further claims about the function alone, checked under ProxySpec        *)

\* C29: the timestamp of the function's cache is never cleared and never
\* decreases, each store stamps the entry with the time of the store, and a
\* response of the cache-hit branch carries, in its body and in its
\* X-Cache-Timestamp header, the timestamp of the entry held when it was built,
\* which is the one of the most recent store.
C29_TimestampMonotonic ==
    [][/\ cache.timestamp # <<>> =>
            /\ cache'.timestamp # <<>>
            /\ cache'.timestamp[1] >= cache.timestamp[1]
       /\ cache' # cache => cache'.timestamp = <<now>>
       /\ \A h \in DOMAIN handler :
            (/\ handler[h].pc = "idle"
             /\ handler'[h].pc = "done"
             /\ handler'[h].resp[1].cacheStatus = "HIT") =>
                /\ handler'[h].resp[1].body[1].timestamp = cache.timestamp
                /\ handler'[h].resp[1].cacheTimestamp = cache.timestamp]_vars

\* the cache was stored twice; an invocation has returned the first store's
\* response, and a later one has returned a cache hit with the second timestamp
C29_Witness ==
    \E g, h \in DOMAIN handler :
        /\ handler[g].pc = "done"
        /\ handler[g].resp[1].cacheStatus = "MISS"
        /\ handler[g].resp[1].body[1].timestamp[1] < cache.timestamp[1]
        /\ handler[h].pc = "done"
        /\ handler[h].resp[1].cacheStatus = "HIT"
        /\ handler[h].resp[1].body[1].timestamp = cache.timestamp
        /\ now > cache.timestamp[1]


----------------------------------------------------------------------------
(* A further claim about the classifier, checked under PipelineSpec        *)

\* the last n elements of s
LastElements(s, n) == [k \in 1..n |-> s[Len(s) - n + k]]

\* C30: the verdict of a series of 120 or more points is the verdict of its last
\* 120 points alone, and a series of fewer than 120 points is never classified
\* winter or autumn.
C30_OnlyLastFiveDays ==
    pstage = "classified" =>
        IF Len(pseasonIn) >= 120
        THEN pseason = detectSeason(LastElements(pseasonIn, 120))
        ELSE pseason.season \notin {"winter", "autumn"}

\* a series of 121 points has been classified whose first point alone is above
\* 10 and whose last point is not below 10
C30_Witness ==
    /\ pstage = "classified"
    /\ Len(pseasonIn) = 121
    /\ NumGt(pseasonIn[1].temperature, 1000)
    /\ \A k \in 2..121 : ~NumGt(pseasonIn[k].temperature, 1000)
    /\ ~NumLt(pseasonIn[121].temperature, 1000)
    /\ pseason = seasonUnknown

====
